---- MODULE Spec2Model ----
(***************************************************************************)
(* A model of the Toggle widget of conrod (src/widget/toggle.rs): the      *)
(* TimesClicked event iterator, the Toggle builder, style resolution and   *)
(* the per-frame update routine, driven by a caller that owns the bool.    *)
(***************************************************************************)
EXTENDS Integers, Sequences, FiniteSets, TLC

(***************************************************************************)
(* Bounds of the model.                                                    *)
(***************************************************************************)
\* Largest number of left clicks on the toggle recorded in one ordinary frame.
MaxClicks == 3
\* Largest number of recorded clicks that do not qualify (other button, other widget).
MaxNoise == 1
\* Largest number of next() calls the caller makes on an exhausted stream.
MaxNone == 2

(***************************************************************************)
(* Option<T>: None is the empty sequence, Some(v) the one-element one.     *)
(***************************************************************************)
None == << >>
Some(v) == << v >>
is_some(o) == Len(o) = 1
unwrap(o) == o[1]
unwrap_or(o, default) == IF is_some(o) THEN o[1] ELSE default

(***************************************************************************)
(* Widget identities.  The toggle's own identity and that of an unrelated  *)
(* widget are given; IndexSlot::get allocates the following ones.          *)
(***************************************************************************)
ToggleIdx == 0
OtherIdx == 1
FirstFreeIdx == 2
Widgets == {ToggleIdx, OtherIdx}

(***************************************************************************)
(* u16: `count: u16`, and the `as u16` cast of a usize (truncation).       *)
(***************************************************************************)
U16Modulus == 65536
U16Max == U16Modulus - 1
as_u16(n) == n % U16Modulus

(***************************************************************************)
(* TimesClicked { state: bool, count: u16 } and its Iterator impl.         *)
(***************************************************************************)
TimesClicked(state, count) == [state |-> state, count |-> count]

\* next() yielding the state it had before the flip.
TimesClicked_next_yields_old(self) ==
    IF self.count > 0
    THEN [self |-> [state |-> ~self.state, count |-> self.count - 1],
          item |-> Some(self.state)]
    ELSE [self |-> self, item |-> None]

\* next() flipping the state even when it is exhausted.
TimesClicked_next_flips_exhausted(self) ==
    IF self.count > 0
    THEN [self |-> [state |-> ~self.state, count |-> self.count - 1],
          item |-> Some(~self.state)]
    ELSE [self |-> [self EXCEPT !.state = ~self.state], item |-> None]

\* fn next(&mut self) -> Option<bool>: the iterator after the call and the item.
TimesClicked_next(self) ==
    IF self.count > 0
    THEN LET flipped == [state |-> ~self.state, count |-> self.count - 1]
         IN  [self |-> flipped, item |-> Some(flipped.state)]
    ELSE [self |-> self, item |-> None]

\* Iterator::last on a TimesClicked: call next until None, keep the last item.
RECURSIVE last_from(_, _)
last_from(iter, acc) ==
    LET r == TimesClicked_next(iter)
    IN  IF is_some(r.item) THEN last_from(r.self, r.item) ELSE acc

Iterator_last(iter) == last_from(iter, None)

(***************************************************************************)
(* Color: hue, luminance in tenths (0 .. 10 stands for 0.0 .. 1.0) and the *)
(* visual variant produced by clicked() / highlighted().                   *)
(***************************************************************************)
Col(hue, lum) == [hue |-> hue, lum |-> lum, variant |-> "plain"]

\* Color::with_luminance(l): the same colour with its luminance replaced by l.
with_luminance(color, l) == [color EXCEPT !.lum = l]
\* Color::clicked() and Color::highlighted(): the two pointer variants.
clicked(color) == [color EXCEPT !.variant = "clicked"]
highlighted(color) == [color EXCEPT !.variant = "highlighted"]

\* The literal 0.1 of `color.with_luminance(0.1)`, in tenths.
DarkLuminance == 1

(***************************************************************************)
(* Theme: the defaults the style falls back to.                            *)
(***************************************************************************)
ThemeA ==
    [shape_color |-> Col("grey", 5), border_width |-> 1,
     border_color |-> Col("charcoal", 2), label_color |-> Col("white", 10),
     font_size_medium |-> 18]
ThemeB ==
    [shape_color |-> Col("teal", 3), border_width |-> 2,
     border_color |-> Col("navy", 1), label_color |-> Col("ivory", 9),
     font_size_medium |-> 14]
Themes == {ThemeA, ThemeB}

(***************************************************************************)
(* Style: five optional overrides, each resolved against the theme.        *)
(***************************************************************************)
Style_new ==
    [color |-> None, border |-> None, border_color |-> None,
     label_color |-> None, label_font_size |-> None]

\* widget_style!: `- field: T { default }` is the override when set, else default.
style_field(maybe, default) == unwrap_or(maybe, default)

Style_color(style, theme) == style_field(style.color, theme.shape_color)
Style_border(style, theme) == style_field(style.border, theme.border_width)
\* border_color falling back to the theme's shape colour.
Style_border_color_from_shape(style, theme) ==
    style_field(style.border_color, theme.shape_color)

Style_border_color(style, theme) == style_field(style.border_color, theme.border_color)
Style_label_color(style, theme) == style_field(style.label_color, theme.label_color)
Style_label_font_size(style, theme) ==
    style_field(style.label_font_size, theme.font_size_medium)

(***************************************************************************)
(* Toggle: the descriptor and its builder methods.                         *)
(***************************************************************************)
Toggle_new(value) ==
    [value |-> value, maybe_label |-> None, style |-> Style_new, enabled |-> TRUE]

Toggle_enabled(self, enabled) == [self EXCEPT !.enabled = enabled]
Toggle_color(self, color) == [self EXCEPT !.style.color = Some(color)]
Toggle_border(self, width) == [self EXCEPT !.style.border = Some(width)]
Toggle_border_color(self, color) == [self EXCEPT !.style.border_color = Some(color)]
Toggle_label(self, label) == [self EXCEPT !.maybe_label = Some(label)]
Toggle_label_color(self, color) == [self EXCEPT !.style.label_color = Some(color)]
Toggle_label_font_size(self, size) ==
    [self EXCEPT !.style.label_font_size = Some(size)]

\* fn style(&self) -> Style
Toggle_style(self) == self.style

(***************************************************************************)
(* State and IndexSlot.                                                    *)
(***************************************************************************)
IndexSlot_new == None

\* IndexSlot::get(&mut ui): the stored identity, allocated on the first call.
IndexSlot_get(slot, ui) ==
    IF is_some(slot)
    THEN [slot |-> slot, idx |-> unwrap(slot), ui |-> ui]
    ELSE [slot |-> Some(ui.next_index), idx |-> ui.next_index,
          ui |-> [ui EXCEPT !.next_index = @ + 1]]

\* fn init_state(&self) -> State
init_state == [rectangle_idx |-> IndexSlot_new, label_idx |-> IndexSlot_new]

(***************************************************************************)
(* The graph context: recorded input, pointer, theme, placed widgets.      *)
(***************************************************************************)
Buttons == {"left", "right"}
EventKinds == Widgets \X Buttons
NoEvents == [k \in EventKinds |-> 0]

\* ui.widget_input(idx): the input recorded for one widget since the prior
\* frame (its clicks per button) and the pointer while it is over the widget.
widget_input(ui, idx) ==
    [clicks |-> [b \in Buttons |-> ui.events[<<idx, b>>]],
     mouse |-> IF ui.mouse.over = Some(idx)
               THEN Some([left_is_down |-> ui.mouse.left_is_down])
               ELSE None]

\* Widget::set(idx, &mut ui): the widget is placed in the graph under idx.
Widget_set(ui, idx, widget) ==
    [ui EXCEPT !.placed = Append(@, [idx |-> idx, widget |-> widget])]

(***************************************************************************)
(* Toggle::update.                                                         *)
(***************************************************************************)
\* The stream built without consulting `enabled`.
new_times_clicked_ignores_enabled(value, enabled, ui, idx) ==
    TimesClicked(value, as_u16(widget_input(ui, idx).clicks["left"]))

\* The stream built from the flipped value.
new_times_clicked_flipped(value, enabled, ui, idx) ==
    TimesClicked(~value,
                 IF enabled THEN as_u16(widget_input(ui, idx).clicks["left"]) ELSE 0)

\* let times_clicked = TimesClicked { state: value, count: ... };
new_times_clicked(value, enabled, ui, idx) ==
    TimesClicked(value,
                 IF enabled THEN as_u16(widget_input(ui, idx).clicks["left"]) ELSE 0)

\* The colour with the hover test taking precedence over the button test.
rectangle_color_hover_first(style, value, times_clicked, ui, idx) ==
    LET color == Style_color(style, ui.theme)
        new_value == unwrap_or(Iterator_last(times_clicked), value)
        shaded == IF new_value THEN color ELSE with_luminance(color, DarkLuminance)
        maybe_mouse == widget_input(ui, idx).mouse
    IN  IF is_some(maybe_mouse) THEN highlighted(shaded) ELSE shaded

\* The colour highlighted even when the pointer is not over the widget.
rectangle_color_always_highlighted(style, value, times_clicked, ui, idx) ==
    LET color == Style_color(style, ui.theme)
        new_value == unwrap_or(Iterator_last(times_clicked), value)
        shaded == IF new_value THEN color ELSE with_luminance(color, DarkLuminance)
        maybe_mouse == widget_input(ui, idx).mouse
    IN  IF is_some(maybe_mouse) /\ unwrap(maybe_mouse).left_is_down
        THEN clicked(shaded)
        ELSE highlighted(shaded)

\* The colour darkened by the first value of the stream instead of the last.
rectangle_color_by_first(style, value, times_clicked, ui, idx) ==
    LET color == Style_color(style, ui.theme)
        new_value == unwrap_or(TimesClicked_next(times_clicked).item, value)
        shaded == IF new_value THEN color ELSE with_luminance(color, DarkLuminance)
        maybe_mouse == widget_input(ui, idx).mouse
    IN  IF is_some(maybe_mouse)
        THEN IF unwrap(maybe_mouse).left_is_down
             THEN clicked(shaded)
             ELSE highlighted(shaded)
        ELSE shaded

\* let color = { ... }: darkened by the prospective value, then the pointer variant.
rectangle_color(style, value, times_clicked, ui, idx) ==
    LET color == Style_color(style, ui.theme)
        new_value == unwrap_or(Iterator_last(times_clicked), value)
        shaded == IF new_value THEN color ELSE with_luminance(color, DarkLuminance)
        maybe_mouse == widget_input(ui, idx).mouse
    IN  IF is_some(maybe_mouse)
        THEN IF unwrap(maybe_mouse).left_is_down
             THEN clicked(shaded)
             ELSE highlighted(shaded)
        ELSE shaded

\* The label placed under a newly allocated identity instead of the slot's.
place_label_without_slot(maybe_label, state, style, rectangle_idx, ui, idx) ==
    IF is_some(maybe_label)
    THEN LET color == Style_label_color(style, ui.theme)
             font_size == Style_label_font_size(style, ui.theme)
             text == [kind |-> "Text", text |-> unwrap(maybe_label),
                      middle_of |-> rectangle_idx, graphics_for |-> idx,
                      color |-> color, font_size |-> font_size]
         IN  [state |-> state,
              ui |-> Widget_set([ui EXCEPT !.next_index = @ + 1], ui.next_index, text)]
    ELSE [state |-> state, ui |-> ui]

\* The label centred on the toggle instead of on the rectangle.
place_label_middle_of_toggle(maybe_label, state, style, rectangle_idx, ui, idx) ==
    IF is_some(maybe_label)
    THEN LET got == IndexSlot_get(state.label_idx, ui)
             color == Style_label_color(style, got.ui.theme)
             font_size == Style_label_font_size(style, got.ui.theme)
             text == [kind |-> "Text", text |-> unwrap(maybe_label),
                      middle_of |-> idx, graphics_for |-> idx,
                      color |-> color, font_size |-> font_size]
         IN  [state |-> [state EXCEPT !.label_idx = got.slot],
              ui |-> Widget_set(got.ui, got.idx, text)]
    ELSE [state |-> state, ui |-> ui]

\* if let Some(label) = maybe_label { ... Text ... .set(label_idx, &mut ui) }
place_label(maybe_label, state, style, rectangle_idx, ui, idx) ==
    IF is_some(maybe_label)
    THEN LET got == IndexSlot_get(state.label_idx, ui)
             color == Style_label_color(style, got.ui.theme)
             font_size == Style_label_font_size(style, got.ui.theme)
             text == [kind |-> "Text", text |-> unwrap(maybe_label),
                      middle_of |-> rectangle_idx, graphics_for |-> idx,
                      color |-> color, font_size |-> font_size]
         IN  [state |-> [state EXCEPT !.label_idx = got.slot],
              ui |-> Widget_set(got.ui, got.idx, text)]
    ELSE [state |-> state, ui |-> ui]

\* update allocating the rectangle's identity anew in every frame.
update_allocates_rectangle(self, args) ==
    LET idx == args.idx
        style == args.style
        value == self.value
        times_clicked == new_times_clicked(value, self.enabled, args.ui, idx)
        rectangle_idx == args.ui.next_index
        ui0 == [args.ui EXCEPT !.next_index = @ + 1]
        state1 == [args.state EXCEPT !.rectangle_idx = Some(rectangle_idx)]
        rectangle == [kind |-> "BorderedRectangle", dim |-> args.rect,
                      middle_of |-> idx, graphics_for |-> idx,
                      color |-> rectangle_color(style, value, times_clicked, ui0, idx),
                      border |-> Style_border(style, ui0.theme),
                      border_color |-> Style_border_color(style, ui0.theme)]
        ui1 == Widget_set(ui0, rectangle_idx, rectangle)
        labelled == place_label(self.maybe_label, state1, style, rectangle_idx, ui1, idx)
    IN  [event |-> times_clicked, state |-> labelled.state, ui |-> labelled.ui]

\* update marking the rectangle as graphics for itself instead of for the toggle.
update_graphics_for_rectangle(self, args) ==
    LET idx == args.idx
        style == args.style
        value == self.value
        times_clicked == new_times_clicked(value, self.enabled, args.ui, idx)
        got == IndexSlot_get(args.state.rectangle_idx, args.ui)
        rectangle_idx == got.idx
        state1 == [args.state EXCEPT !.rectangle_idx = got.slot]
        rectangle == [kind |-> "BorderedRectangle", dim |-> args.rect,
                      middle_of |-> idx, graphics_for |-> rectangle_idx,
                      color |-> rectangle_color(style, value, times_clicked, got.ui, idx),
                      border |-> Style_border(style, got.ui.theme),
                      border_color |-> Style_border_color(style, got.ui.theme)]
        ui1 == Widget_set(got.ui, rectangle_idx, rectangle)
        labelled == place_label(self.maybe_label, state1, style, rectangle_idx, ui1, idx)
    IN  [event |-> times_clicked, state |-> labelled.state, ui |-> labelled.ui]

\* update giving a disabled toggle the plain style colour, with no feedback.
update_disabled_plain(self, args) ==
    LET idx == args.idx
        style == args.style
        value == self.value
        times_clicked == new_times_clicked(value, self.enabled, args.ui, idx)
        got == IndexSlot_get(args.state.rectangle_idx, args.ui)
        rectangle_idx == got.idx
        state1 == [args.state EXCEPT !.rectangle_idx = got.slot]
        color == IF self.enabled
                 THEN rectangle_color(style, value, times_clicked, got.ui, idx)
                 ELSE Style_color(style, got.ui.theme)
        rectangle == [kind |-> "BorderedRectangle", dim |-> args.rect,
                      middle_of |-> idx, graphics_for |-> idx, color |-> color,
                      border |-> Style_border(style, got.ui.theme),
                      border_color |-> Style_border_color(style, got.ui.theme)]
        ui1 == Widget_set(got.ui, rectangle_idx, rectangle)
        labelled == place_label(self.maybe_label, state1, style, rectangle_idx, ui1, idx)
    IN  [event |-> times_clicked, state |-> labelled.state, ui |-> labelled.ui]

\* fn update(self, args) -> TimesClicked, with the state and ui it leaves behind.
update(self, args) ==
    LET idx == args.idx
        style == args.style
        value == self.value
        enabled == self.enabled
        maybe_label == self.maybe_label
        times_clicked == new_times_clicked(value, enabled, args.ui, idx)
        got == IndexSlot_get(args.state.rectangle_idx, args.ui)
        rectangle_idx == got.idx
        state1 == [args.state EXCEPT !.rectangle_idx = got.slot]
        dim == args.rect
        border == Style_border(style, got.ui.theme)
        color == rectangle_color(style, value, times_clicked, got.ui, idx)
        border_color == Style_border_color(style, got.ui.theme)
        rectangle == [kind |-> "BorderedRectangle", dim |-> dim,
                      middle_of |-> idx, graphics_for |-> idx, color |-> color,
                      border |-> border, border_color |-> border_color]
        ui1 == Widget_set(got.ui, rectangle_idx, rectangle)
        labelled == place_label(maybe_label, state1, style, rectangle_idx, ui1, idx)
    IN  [event |-> times_clicked, state |-> labelled.state, ui |-> labelled.ui]


(***************************************************************************)
(* The inputs of a frame.                                                  *)
(***************************************************************************)
AreaColors == {Col("black", 0), Col("green", 8)}
OptionOf(S) == {None} \cup {Some(x) : x \in S}
AllOverrides ==
    [color : OptionOf(AreaColors), border : OptionOf({3}),
     border_color : OptionOf({Col("red", 4)}), label_color : OptionOf({Col("blue", 6)}),
     label_font_size : OptionOf({24})]
StyleFields == {"color", "border", "border_color", "label_color", "label_font_size"}
\* The overrides a caller sets: none, a single one, or all five.
StyleOverrides ==
    {o \in AllOverrides :
        Cardinality({f \in StyleFields : is_some(o[f])}) \in {0, 1, 5}}
Labels == OptionOf({"On"})
Rects == {<<40, 20>>, <<60, 30>>}
Pointers == [over : OptionOf({ToggleIdx}), left_is_down : BOOLEAN]

\* Toggle::new(value) followed by the builder methods the caller uses.
build_toggle(value, enabled, maybe_label, o) ==
    LET t0 == Toggle_enabled(Toggle_new(value), enabled)
        t1 == IF is_some(maybe_label) THEN Toggle_label(t0, unwrap(maybe_label)) ELSE t0
        t2 == IF is_some(o.color) THEN Toggle_color(t1, unwrap(o.color)) ELSE t1
        t3 == IF is_some(o.border) THEN Toggle_border(t2, unwrap(o.border)) ELSE t2
        t4 == IF is_some(o.border_color)
              THEN Toggle_border_color(t3, unwrap(o.border_color)) ELSE t3
        t5 == IF is_some(o.label_color)
              THEN Toggle_label_color(t4, unwrap(o.label_color)) ELSE t4
    IN  IF is_some(o.label_font_size)
        THEN Toggle_label_font_size(t5, unwrap(o.label_font_size)) ELSE t5

(***************************************************************************)
(* State of the program.                                                   *)
(***************************************************************************)
VARIABLES
    caller_value,   \* the bool the caller owns and passes to Toggle::new
    state,          \* the toggle's persistent State in the graph
    ui,             \* the graph context: theme, events, mouse, next_index, placed
    phase,          \* "input": between frames; "updated": update has returned
    frame,          \* Some of the descriptor, its inputs and the prior state of this frame
    returned,       \* Some of the TimesClicked as update returned it
    iter,           \* Some of the TimesClicked the caller holds and advances
    n_yielded,      \* number of items next() has yielded from iter
    n_none,         \* number of times next() has returned None on iter
    last_item       \* the result of the latest next() call on iter

vars == <<caller_value, state, ui, phase, frame, returned, iter,
          n_yielded, n_none, last_item>>

Init ==
    /\ caller_value \in BOOLEAN
    /\ state = init_state
    /\ ui = [theme |-> ThemeA, events |-> NoEvents,
             mouse |-> [over |-> None, left_is_down |-> FALSE],
             next_index |-> FirstFreeIdx, placed |-> << >>]
    /\ phase = "input"
    /\ frame = None
    /\ returned = None
    /\ iter = None
    /\ n_yielded = 0
    /\ n_none = 0
    /\ last_item = None

Qualifying == <<ToggleIdx, "left">>
noise_count(events) ==
    events[<<ToggleIdx, "right">>] + events[<<OtherIdx, "left">>]
        + events[<<OtherIdx, "right">>]

\* The environment records n click events of one button on one widget.
RecordClicks(w, b, n) ==
    /\ phase = "input"
    /\ IF <<w, b>> = Qualifying
       THEN IF n = 1 THEN ui.events[Qualifying] % U16Modulus < MaxClicks
                     ELSE ui.events[Qualifying] < U16Modulus
       ELSE n = 1 /\ noise_count(ui.events) < MaxNoise
    /\ ui' = [ui EXCEPT !.events[<<w, b>>] = @ + n]
    /\ UNCHANGED <<caller_value, state, phase, frame, returned, iter,
                   n_yielded, n_none, last_item>>

\* The environment moves the pointer or changes the left button.
PointerInput(mouse) ==
    /\ phase = "input"
    /\ mouse # ui.mouse
    /\ ui' = [ui EXCEPT !.mouse = mouse]
    /\ UNCHANGED <<caller_value, state, phase, frame, returned, iter,
                   n_yielded, n_none, last_item>>

\* The application changes the theme.
SetTheme(theme) ==
    /\ phase = "input"
    /\ theme # ui.theme
    /\ ui' = [ui EXCEPT !.theme = theme]
    /\ UNCHANGED <<caller_value, state, phase, frame, returned, iter,
                   n_yielded, n_none, last_item>>

\* The caller builds the descriptor from its bool and sets it: update runs.
Frame(enabled, maybe_label, overrides, rect) ==
    /\ phase = "input"
    /\ LET toggle == build_toggle(caller_value, enabled, maybe_label, overrides)
           args == [idx |-> ToggleIdx, state |-> state,
                    style |-> Toggle_style(toggle), rect |-> rect, ui |-> ui]
           r == update(toggle, args)
       IN  /\ state' = r.state
           /\ ui' = r.ui
           /\ frame' = Some([toggle |-> toggle, overrides |-> overrides,
                             maybe_label |-> maybe_label, rect |-> rect,
                             state |-> state, next_index |-> ui.next_index])
           /\ returned' = Some(r.event)
           /\ iter' = Some(r.event)
    /\ phase' = "updated"
    /\ n_yielded' = 0
    /\ n_none' = 0
    /\ last_item' = None
    /\ UNCHANGED caller_value

\* The caller calls next() on the stream, and applies the item to its bool or not.
CallerNext(apply) ==
    /\ phase = "updated"
    /\ LET r == TimesClicked_next(unwrap(iter))
       IN  /\ is_some(r.item) \/ n_none < MaxNone
           /\ iter' = Some(r.self)
           /\ last_item' = r.item
           /\ n_yielded' = IF is_some(r.item) THEN n_yielded + 1 ELSE n_yielded
           /\ n_none' = IF is_some(r.item) THEN n_none ELSE n_none + 1
           /\ caller_value' = IF apply /\ is_some(r.item)
                              THEN unwrap(r.item) ELSE caller_value
    /\ UNCHANGED <<state, ui, phase, frame, returned>>

\* The frame ends: the stream is dropped and the recorded input is cleared.
EndFrame ==
    /\ phase = "updated"
    /\ phase' = "input"
    /\ ui' = [ui EXCEPT !.events = NoEvents, !.placed = << >>]
    /\ frame' = None
    /\ returned' = None
    /\ iter' = None
    /\ n_yielded' = 0
    /\ n_none' = 0
    /\ last_item' = None
    /\ UNCHANGED <<caller_value, state>>

Next ==
    \/ \E w \in Widgets, b \in Buttons, n \in {1, U16Modulus} : RecordClicks(w, b, n)
    \/ \E mouse \in Pointers : PointerInput(mouse)
    \/ \E theme \in Themes : SetTheme(theme)
    \/ \E enabled \in BOOLEAN, maybe_label \in Labels,
          overrides \in StyleOverrides, rect \in Rects :
            Frame(enabled, maybe_label, overrides, rect)
    \/ \E apply \in BOOLEAN : CallerNext(apply)
    \/ EndFrame

Spec == Init /\ [][Next]_vars

(***************************************************************************)
(* What a frame passed to update and what update left behind.              *)
(***************************************************************************)
Updated == phase = "updated"
Descriptor == unwrap(frame).toggle
Overrides == unwrap(frame).overrides
PriorState == unwrap(frame).state
Returned == unwrap(returned)
Held == unwrap(iter)
LeftClicks == ui.events[Qualifying]
Rectangle == ui.placed[1].widget
Text == ui.placed[2].widget
Hovered == ui.mouse.over = Some(ToggleIdx)
Pressed == ui.mouse.left_is_down
Odd(n) == n % 2 = 1
\* The last value the returned stream would yield, or value when it is empty.
Prospective == Descriptor.value # Odd(Returned.count)
\* The resolved style colour before darkening and before the pointer variant.
Undarkened == unwrap_or(Overrides.color, ui.theme.shape_color)
Shaded == IF Prospective THEN Undarkened ELSE with_luminance(Undarkened, DarkLuminance)

\* C1: a stream built with state s and count k yields exactly k values before
\* its first None, and the i-th value is ~s for odd i and s for even i.
C1_YieldsKAlternating ==
    Updated =>
        /\ n_yielded <= Returned.count
        /\ (n_none > 0 => n_yielded = Returned.count)
        /\ (n_none = 0 /\ n_yielded > 0 => is_some(last_item))
        /\ (is_some(last_item) =>
              unwrap(last_item) = IF Odd(n_yielded) THEN ~Returned.state
                                                   ELSE Returned.state)

C1_Witness ==
    /\ Updated
    /\ Returned.count = 3
    /\ n_yielded = 3
    /\ n_none = 1

\* C2: exhaustion is terminal: once count is 0 every next() returns None and
\* leaves state and count unchanged, and no value is yielded after a None.
C2_ExhaustionTerminal ==
    [][(Updated /\ phase' = "updated") =>
          /\ (Held.count = 0 => last_item' = None /\ iter' = iter
                                 /\ n_yielded' = n_yielded)
          /\ (n_none > 0 => last_item' = None /\ n_yielded' = n_yielded)]_vars

C2_Witness ==
    /\ Updated
    /\ n_none = 2
    /\ Returned.count > 0
    /\ n_yielded = Returned.count

C2_WitnessEmpty ==
    /\ Updated
    /\ Returned.count = 0
    /\ n_none = 1

\* C3: with enabled = false the returned stream has count 0, whatever clicks
\* are recorded and whatever value is.
C3_DisabledCountZero ==
    Updated /\ ~Descriptor.enabled => Returned.count = 0

C3_Witness ==
    /\ Updated
    /\ ~Descriptor.enabled
    /\ LeftClicks = 3
    /\ Returned.count = 0

\* C4: with enabled = true, value = v and n left clicks on the toggle, the
\* returned stream has state v and count n; other clicks do not contribute.
C4_CountIsLeftClicks ==
    Updated /\ Descriptor.enabled =>
        /\ Returned.state = Descriptor.value
        /\ Returned.count = LeftClicks

\* C5: more than 65535 qualifying clicks make the count saturate at 65535.
C5_CountSaturates ==
    Updated /\ Descriptor.enabled /\ LeftClicks > U16Max =>
        Returned.count = U16Max

\* C6: a slot resolves to the same identity in every frame: a filled slot
\* keeps its identity, and the rectangle and the label (when placed) are
\* placed under the identities their slots hold.
C6_StableIdentity ==
    [][/\ (is_some(state.rectangle_idx) => state'.rectangle_idx = state.rectangle_idx)
       /\ (is_some(state.label_idx) => state'.label_idx = state.label_idx)
       /\ (phase' = "updated" =>
             /\ state'.rectangle_idx = Some(ui'.placed[1].idx)
             /\ (Len(ui'.placed) = 2 => state'.label_idx = Some(ui'.placed[2].idx)))
      ]_vars

C6_Witness ==
    /\ Updated
    /\ is_some(PriorState.rectangle_idx)
    /\ is_some(PriorState.label_idx)
    /\ Len(ui.placed) = 2
    /\ ui.placed[1].idx = unwrap(PriorState.rectangle_idx)
    /\ ui.placed[2].idx = unwrap(PriorState.label_idx)

\* C7: without pointer interaction the rectangle colour is the undarkened
\* style colour when the prospective value is true, and differs from it and
\* has lower luminance than it when the prospective value is false.
C7_DarkenedWhenFalse ==
    Updated /\ ~Hovered =>
        IF Prospective
        THEN Rectangle.color = Undarkened
        ELSE Rectangle.color # Undarkened /\ Rectangle.color.lum < Undarkened.lum

\* C8: pressed and hovered gives the clicked variant of the (possibly
\* darkened) colour, never the highlighted one; hovered and not pressed gives
\* the highlighted variant.
C8_PressedOverridesHovered ==
    Updated /\ Hovered =>
        IF Pressed
        THEN Rectangle.color = clicked(Shaded) /\ Rectangle.color # highlighted(Shaded)
        ELSE Rectangle.color = highlighted(Shaded)

C8_Witness ==
    /\ Updated
    /\ Hovered
    /\ Pressed
    /\ Rectangle.color.variant = "clicked"

\* C9: update never changes the caller's bool, and the returned stream starts
\* from the value the caller passed in this frame, whatever earlier frames
\* reported and whether or not the caller applied it.
C9_CallerValueUntouched ==
    [][/\ (phase' = "updated" =>
             unwrap(returned').state = unwrap(frame').toggle.value)
       /\ (phase = "input" /\ phase' = "updated" =>
             /\ caller_value' = caller_value
             /\ unwrap(returned').state = caller_value)
      ]_vars

C9_Witness ==
    /\ Updated
    /\ is_some(PriorState.rectangle_idx)
    /\ Returned.count = 2
    /\ n_yielded = 0
    /\ Returned.state = caller_value

\* C10: each of the five style values update uses is the override set through
\* the builder when there is one, and the theme's default otherwise.
C10_StyleResolution ==
    Updated =>
        /\ Rectangle.color.hue = Undarkened.hue
        /\ (Prospective /\ ~Hovered => Rectangle.color = Undarkened)
        /\ Rectangle.border = unwrap_or(Overrides.border, ui.theme.border_width)
        /\ Rectangle.border_color =
               unwrap_or(Overrides.border_color, ui.theme.border_color)
        /\ (Len(ui.placed) = 2 =>
              /\ Text.color = unwrap_or(Overrides.label_color, ui.theme.label_color)
              /\ Text.font_size =
                     unwrap_or(Overrides.label_font_size, ui.theme.font_size_medium))

C10_Witness ==
    /\ Updated
    /\ Len(ui.placed) = 2
    /\ is_some(Overrides.border)
    /\ ~is_some(Overrides.border_color)
    /\ ui.theme = ThemeB
    /\ Rectangle.border = 3
    /\ Rectangle.border_color = ThemeB.border_color

\* The colour update is to compute from a value and a click count: the style
\* colour, darkened when the count leaves the value false, in the pointer variant.
ColorFor(value, count) ==
    LET final == value # Odd(count)
        shaded == IF final THEN Undarkened
                           ELSE with_luminance(Undarkened, DarkLuminance)
    IN  IF Hovered
        THEN IF Pressed THEN clicked(shaded) ELSE highlighted(shaded)
        ELSE shaded
Filled(slot) == IF is_some(slot) THEN 1 ELSE 0
Labelled == is_some(unwrap(frame).maybe_label)
Rectangles == {i \in 1..Len(ui.placed) : ui.placed[i].widget.kind = "BorderedRectangle"}
Texts == {i \in 1..Len(ui.placed) : ui.placed[i].widget.kind = "Text"}

\* C11: computing the colour does not consume the returned stream: it has
\* state = value and count = the number of qualifying clicks (left clicks on
\* the toggle when enabled, none when disabled), as it was built.
C11_ReturnedAsBuilt ==
    Updated =>
        /\ Returned.state = Descriptor.value
        /\ Returned.count = IF Descriptor.enabled THEN LeftClicks ELSE 0
        /\ Held = Returned \/ n_yielded + n_none > 0

\* C12: the count reported in an enabled frame is the number of left clicks
\* recorded since the prior frame only; nothing is carried over from earlier
\* frames, disabled or not.
C12_CountOfThisFrameOnly ==
    Updated /\ Descriptor.enabled => Returned.count = ui.events[Qualifying]

\* C13: a slot is created empty and allocates exactly once: every identity
\* allocated fills a slot that was empty, the rectangle slot on the first
\* update and the label slot on its first resolution, and a filled slot is
\* never emptied or refilled.
C13_OneAllocationPerSlot ==
    /\ ui.next_index - FirstFreeIdx
          = Filled(state.rectangle_idx) + Filled(state.label_idx)
    /\ Updated =>
          /\ is_some(state.rectangle_idx)
          /\ (is_some(PriorState.rectangle_idx) =>
                state.rectangle_idx = PriorState.rectangle_idx)
          /\ (is_some(PriorState.label_idx) =>
                state.label_idx = PriorState.label_idx)
          /\ ui.next_index - unwrap(frame).next_index
                = (1 - Filled(PriorState.rectangle_idx))
                  + (IF Labelled THEN 1 - Filled(PriorState.label_idx) ELSE 0)

C13_Witness ==
    /\ Updated
    /\ Labelled
    /\ is_some(PriorState.rectangle_idx)
    /\ is_some(PriorState.label_idx)
    /\ ui.next_index = unwrap(frame).next_index
    /\ ui.next_index = FirstFreeIdx + 2

\* C14: the label slot is resolved and a text is placed exactly when the
\* toggle has a label; the text is centred on the rectangle's identity and is
\* graphics for the toggle; without a label nothing is allocated for it.
C14_LabelIffPresent ==
    Updated =>
        IF Labelled
        THEN /\ Len(ui.placed) = 2
             /\ Texts = {2}
             /\ state.label_idx = Some(ui.placed[2].idx)
             /\ Text.text = unwrap(unwrap(frame).maybe_label)
             /\ Text.middle_of = ui.placed[1].idx
             /\ Text.graphics_for = ToggleIdx
        ELSE /\ Texts = {}
             /\ state.label_idx = PriorState.label_idx
             /\ (PriorState.label_idx = None =>
                   ui.next_index = unwrap(frame).next_index
                                     + (1 - Filled(PriorState.rectangle_idx)))

C14_Witness ==
    /\ Updated
    /\ Labelled
    /\ Len(ui.placed) = 2
    /\ Text.middle_of = unwrap(state.rectangle_idx)
    /\ Text.graphics_for = ToggleIdx

C14_WitnessUnlabelled ==
    /\ Updated
    /\ ~Labelled
    /\ is_some(PriorState.rectangle_idx)
    /\ state.label_idx = None
    /\ Len(ui.placed) = 1

\* C15: every update places exactly one bordered rectangle, under the
\* rectangle slot's identity, sized to the toggle's rect, centred on and
\* graphics for the toggle, with the computed colour and the resolved border.
C15_OneRectanglePlaced ==
    Updated =>
        /\ Rectangles = {1}
        /\ state.rectangle_idx = Some(ui.placed[1].idx)
        /\ Rectangle.dim = unwrap(frame).rect
        /\ Rectangle.middle_of = ToggleIdx
        /\ Rectangle.graphics_for = ToggleIdx
        /\ Rectangle.color = ColorFor(Descriptor.value, Returned.count)
        /\ Rectangle.border = unwrap_or(Overrides.border, ui.theme.border_width)
        /\ Rectangle.border_color =
               unwrap_or(Overrides.border_color, ui.theme.border_color)

C15_Witness ==
    /\ Updated
    /\ Labelled
    /\ Hovered
    /\ ~Descriptor.enabled
    /\ unwrap(frame).rect = <<60, 30>>
    /\ Rectangle.dim = <<60, 30>>
    /\ Rectangle.graphics_for = ToggleIdx

\* C16: with the pointer neither pressed nor over the toggle the rectangle
\* colour is the (possibly darkened) style colour, neither its clicked nor
\* its highlighted variant.
C16_NoPointerNoVariant ==
    Updated /\ ~Pressed /\ ~Hovered =>
        /\ Rectangle.color = Shaded
        /\ Rectangle.color # clicked(Shaded)
        /\ Rectangle.color # highlighted(Shaded)

C16_Witness ==
    /\ Updated
    /\ ~Pressed
    /\ ~Hovered
    /\ ~Prospective
    /\ Rectangle.color.variant = "plain"

\* The caller has taken every value of the stream and its bool is the last one
\* (or the stream was empty).
AppliedAll ==
    \/ Returned.count = 0
    \/ /\ n_yielded = Returned.count
       /\ is_some(last_item)
       /\ caller_value = unwrap(last_item)
\* The colour the next frame computes from the caller's bool when no click is
\* recorded and style, theme and pointer are the same.
NextFrameColor ==
    LET quiet == [ui EXCEPT !.events = NoEvents, !.placed = << >>]
        toggle == build_toggle(caller_value, Descriptor.enabled,
                               unwrap(frame).maybe_label, Overrides)
        args == [idx |-> ToggleIdx, state |-> state, style |-> Toggle_style(toggle),
                 rect |-> unwrap(frame).rect, ui |-> quiet]
    IN  update(toggle, args).ui.placed[1].widget.color

\* C18: when the caller has applied every yielded value, its bool is the
\* prospective value of this frame, and a next frame without clicks and with
\* the same style, theme and pointer computes the same rectangle colour.
C18_ColorConsistentAcrossFrames ==
    Updated /\ AppliedAll =>
        /\ caller_value = Prospective
        /\ NextFrameColor = Rectangle.color

C18_Witness ==
    /\ Updated
    /\ Returned.count = 3
    /\ n_yielded = 3
    /\ is_some(last_item)
    /\ caller_value = unwrap(last_item)
    /\ caller_value # Descriptor.value

\* C19: with enabled = false the rectangle colour is still darkened by value
\* and still takes the clicked or highlighted variant from the pointer, as for
\* an enabled toggle with no clicks.
C19_FeedbackWhenDisabled ==
    Updated /\ ~Descriptor.enabled =>
        /\ Returned.count = 0
        /\ Rectangle.color = ColorFor(Descriptor.value, 0)

C19_Witness ==
    /\ Updated
    /\ ~Descriptor.enabled
    /\ ~Descriptor.value
    /\ LeftClicks = 1
    /\ Hovered
    /\ Pressed
    /\ Rectangle.color = clicked(with_luminance(Undarkened, DarkLuminance))

====
